---- MODULE Spec2Model ----
(***************************************************************************)
(* Model of jira-cli-rust: the JiraDatabase store (src/src/db.rs), the     *)
(* Navigator's page stack (src/src/navigator.rs), the three pages          *)
(* (src/src/ui/pages/*.rs) and the loop of main (src/src/main.rs).         *)
(***************************************************************************)
EXTENDS Integers, Sequences, FiniteSets, TLC

\* ------------------------------------------------------------------ bounds
\* Largest value last_item_id may reach: creates are disabled beyond it.
MaxId == 3
\* Largest value last_item_id may reach when actions are handed to the
\* Navigator directly, where every stack of pages can be built.
MaxNavId == 2
\* Largest depth of the page stack when actions are handed to the Navigator
\* directly: pushes are disabled beyond it.
MaxPages == 2
\* Largest depth of the page stack when only navigation and creates are
\* handed to the Navigator: pushes are disabled beyond it.
MaxDepth == 3

Ids == 1..MaxId
NavIds == 1..MaxNavId

\* ------------------------------------------------------------- entity model
Statuses == {"Open", "InProgress", "Resolved", "Closed"}

\* The name a prompt hands back for a new epic or story.
Names == {"a"}

\* The statuses the callers of the update operations pass in.
PickedStatuses == {"Resolved"}

\* Epic::new(name, description): status Open, no stories.
NewEpic(name, description) ==
    [name |-> name, description |-> description, status |-> "Open", stories |-> <<>>]

\* Story::new(name, description): status Open.
NewStory(name, description) ==
    [name |-> name, description |-> description, status |-> "Open"]

\* The state MockDB::new() holds: counter 0 and two empty maps.
EmptyDB == [last_item_id |-> 0, epics |-> <<>>, stories |-> <<>>]

\* ------------------------------------------------------------- map helpers
\* HashMap::insert(k, v): the entry is added, or replaced when k is a key.
Insert(m, k, v) == [x \in (DOMAIN m) \cup {k} |-> IF x = k THEN v ELSE m[x]]

\* HashMap::remove for every key of ks: absent keys are ignored.
RemoveAll(m, ks) == [x \in (DOMAIN m) \ ks |-> m[x]]

\* HashMap::contains_key
ContainsKey(m, k) == k \in DOMAIN m

\* The elements of a Vec.
Range(s) == {s[i] : i \in 1..Len(s)}

\* push overwriting the last element when there is one.
Push_replaces_top(s, x) == IF Len(s) = 0 THEN <<x>> ELSE [s EXCEPT ![Len(s)] = x]

\* Vec::push
Push(s, x) == Append(s, x)

\* clear in the place of pop.
Pop_clears(s) == <<>>

\* pop refusing to remove the last element.
Pop_keeps_last(s) == IF Len(s) <= 1 THEN s ELSE SubSeq(s, 1, Len(s) - 1)

\* Vec::pop, behind the is_empty test the Navigator always makes first.
Pop(s) == IF Len(s) = 0 THEN s ELSE SubSeq(s, 1, Len(s) - 1)

\* The Vec without the occurrences of x, order of the rest kept.
RECURSIVE Without(_, _)
Without(s, x) ==
    IF Len(s) = 0 THEN <<>>
    ELSE IF Head(s) = x THEN Without(Tail(s), x)
         ELSE <<Head(s)>> \o Without(Tail(s), x)

\* ---------------------------------------------------------- backing medium
\* What one read-modify-write cycle meets at the backing medium:
\* both calls work, Database::read fails, or Database::write fails.
IOAll == {"ok", "read_fail", "write_fail"}
IOFine == {"ok"}
\* A medium that is read but may refuse the write, as a read-only file does.
IOWrites == {"ok", "write_fail"}

\* The result of a Store call: res is "Ok" or the failure, id the returned id
\* (0 when none is returned), db the contents of the medium afterwards.
Done(d, id) == [res |-> "Ok", id |-> id, db |-> d]
Failed(d, why) == [res |-> why, id |-> 0, db |-> d]

\* database.write(&data): the medium holds data, or the call fails and the
\* medium keeps old.
Write(old, data, id, io) ==
    IF io = "write_fail" THEN Failed(old, "StoreUnavailable") ELSE Done(data, id)

\* -------------------------------------------------------------------- store
\* create_epic forgetting to store the new counter.
create_epic_stale_counter(d, epic, io) ==
    IF io = "read_fail" THEN Failed(d, "StoreUnavailable")
    ELSE LET new_epic_id == d.last_item_id + 1
             data == [last_item_id |-> d.last_item_id,
                      epics |-> Insert(d.epics, new_epic_id, epic),
                      stories |-> d.stories]
         IN Write(d, data, new_epic_id, io)

\* create_epic taking the number of epics, not the counter, for the new id.
create_epic_counts_epics(d, epic, io) ==
    IF io = "read_fail" THEN Failed(d, "StoreUnavailable")
    ELSE LET new_epic_id == Cardinality(DOMAIN d.epics) + 1
             data == [last_item_id |-> new_epic_id,
                      epics |-> Insert(d.epics, new_epic_id, epic),
                      stories |-> d.stories]
         IN Write(d, data, new_epic_id, io)

create_epic(d, epic, io) ==
    IF io = "read_fail" THEN Failed(d, "StoreUnavailable")
    ELSE LET new_epic_id == d.last_item_id + 1
             data == [last_item_id |-> new_epic_id,
                      epics |-> Insert(d.epics, new_epic_id, epic),
                      stories |-> d.stories]
         IN Write(d, data, new_epic_id, io)

\* create_story inserting the story before it looks for the epic.
create_story_inserts_first(d, story, epic_id, io) ==
    IF io = "read_fail" THEN Failed(d, "StoreUnavailable")
    ELSE LET new_story_id == d.last_item_id + 1
             stored == [last_item_id |-> new_story_id,
                        epics |-> d.epics,
                        stories |-> Insert(d.stories, new_story_id, story)]
         IN IF ~ContainsKey(d.epics, epic_id) THEN Failed(stored, "EpicNotFound")
            ELSE LET epic == d.epics[epic_id]
                     data == [stored EXCEPT !.epics = Insert(d.epics, epic_id,
                                 [epic EXCEPT !.stories = Push(epic.stories, new_story_id)])]
                 IN Write(d, data, new_story_id, io)

\* create_story putting the new id at the front of the epic's list.
create_story_prepends(d, story, epic_id, io) ==
    IF io = "read_fail" THEN Failed(d, "StoreUnavailable")
    ELSE IF ~ContainsKey(d.epics, epic_id) THEN Failed(d, "EpicNotFound")
    ELSE LET new_story_id == d.last_item_id + 1
             epic == d.epics[epic_id]
             data == [last_item_id |-> new_story_id,
                      epics |-> Insert(d.epics, epic_id,
                                   [epic EXCEPT !.stories = <<new_story_id>> \o epic.stories]),
                      stories |-> Insert(d.stories, new_story_id, story)]
         IN Write(d, data, new_story_id, io)

\* create_story forgetting to push the new id on the epic's list.
create_story_forgets_epic(d, story, epic_id, io) ==
    IF io = "read_fail" THEN Failed(d, "StoreUnavailable")
    ELSE IF ~ContainsKey(d.epics, epic_id) THEN Failed(d, "EpicNotFound")
    ELSE LET new_story_id == d.last_item_id + 1
             data == [last_item_id |-> new_story_id,
                      epics |-> d.epics,
                      stories |-> Insert(d.stories, new_story_id, story)]
         IN Write(d, data, new_story_id, io)

\* create_story forgetting to store the new counter.
create_story_stale_counter(d, story, epic_id, io) ==
    IF io = "read_fail" THEN Failed(d, "StoreUnavailable")
    ELSE IF ~ContainsKey(d.epics, epic_id) THEN Failed(d, "EpicNotFound")
    ELSE LET new_story_id == d.last_item_id + 1
             epic == d.epics[epic_id]
             data == [last_item_id |-> d.last_item_id,
                      epics |-> Insert(d.epics, epic_id,
                                   [epic EXCEPT !.stories = Push(epic.stories, new_story_id)]),
                      stories |-> Insert(d.stories, new_story_id, story)]
         IN Write(d, data, new_story_id, io)

create_story(d, story, epic_id, io) ==
    IF io = "read_fail" THEN Failed(d, "StoreUnavailable")
    ELSE IF ~ContainsKey(d.epics, epic_id) THEN Failed(d, "EpicNotFound")
    ELSE LET new_story_id == d.last_item_id + 1
             epic == d.epics[epic_id]
             data == [last_item_id |-> new_story_id,
                      epics |-> Insert(d.epics, epic_id,
                                   [epic EXCEPT !.stories = Push(epic.stories, new_story_id)]),
                      stories |-> Insert(d.stories, new_story_id, story)]
         IN Write(d, data, new_story_id, io)

\* delete_epic giving the counter back one id.
delete_epic_rewinds_counter(d, epic_id, io) ==
    IF io = "read_fail" THEN Failed(d, "StoreUnavailable")
    ELSE IF ~ContainsKey(d.epics, epic_id) THEN Failed(d, "EpicNotFound")
    ELSE LET epic == d.epics[epic_id]
             data == [last_item_id |-> d.last_item_id - 1,
                      epics |-> RemoveAll(d.epics, {epic_id}),
                      stories |-> RemoveAll(d.stories, Range(epic.stories))]
         IN Write(d, data, 0, io)

\* delete_epic forgetting the stories of the epic.
delete_epic_keeps_stories(d, epic_id, io) ==
    IF io = "read_fail" THEN Failed(d, "StoreUnavailable")
    ELSE IF ~ContainsKey(d.epics, epic_id) THEN Failed(d, "EpicNotFound")
    ELSE LET data == [last_item_id |-> d.last_item_id,
                      epics |-> RemoveAll(d.epics, {epic_id}),
                      stories |-> d.stories]
         IN Write(d, data, 0, io)

delete_epic(d, epic_id, io) ==
    IF io = "read_fail" THEN Failed(d, "StoreUnavailable")
    ELSE IF ~ContainsKey(d.epics, epic_id) THEN Failed(d, "EpicNotFound")
    ELSE LET epic == d.epics[epic_id]
             data == [last_item_id |-> d.last_item_id,
                      epics |-> RemoveAll(d.epics, {epic_id}),
                      stories |-> RemoveAll(d.stories, Range(epic.stories))]
         IN Write(d, data, 0, io)

\* delete_story refusing a story that the named epic's list does not hold.
delete_story_strict(d, epic_id, story_id, io) ==
    IF io = "read_fail" THEN Failed(d, "StoreUnavailable")
    ELSE IF ~ContainsKey(d.epics, epic_id) THEN Failed(d, "EpicNotFound")
    ELSE IF story_id \notin Range(d.epics[epic_id].stories) THEN Failed(d, "StoryNotFound")
    ELSE LET epic == d.epics[epic_id]
             data == [last_item_id |-> d.last_item_id,
                      epics |-> Insert(d.epics, epic_id,
                                   [epic EXCEPT !.stories = Without(epic.stories, story_id)]),
                      stories |-> RemoveAll(d.stories, {story_id})]
         IN Write(d, data, 0, io)

\* JiraDatabase::delete_story is called by the Navigator but its body is not
\* among the sources; it is modelled from the Store contract: EpicNotFound
\* when the epic is absent, otherwise the story leaves the stories map and
\* its id leaves the named epic's list, whether or not it was there.
delete_story(d, epic_id, story_id, io) ==
    IF io = "read_fail" THEN Failed(d, "StoreUnavailable")
    ELSE IF ~ContainsKey(d.epics, epic_id) THEN Failed(d, "EpicNotFound")
    ELSE LET epic == d.epics[epic_id]
             data == [last_item_id |-> d.last_item_id,
                      epics |-> Insert(d.epics, epic_id,
                                   [epic EXCEPT !.stories = Without(epic.stories, story_id)]),
                      stories |-> RemoveAll(d.stories, {story_id})]
         IN Write(d, data, 0, io)

\* update_epic_status refusing the status the epic already has.
update_epic_status_rejects_same(d, epic_id, status, io) ==
    IF io = "read_fail" THEN Failed(d, "StoreUnavailable")
    ELSE IF ~ContainsKey(d.epics, epic_id) THEN Failed(d, "EpicNotFound")
    ELSE IF d.epics[epic_id].status = status THEN Failed(d, "InvalidTransition")
    ELSE LET epic == d.epics[epic_id]
             data == [d EXCEPT !.epics = Insert(d.epics, epic_id,
                                            [epic EXCEPT !.status = status])]
         IN Write(d, data, 0, io)

update_epic_status(d, epic_id, status, io) ==
    IF io = "read_fail" THEN Failed(d, "StoreUnavailable")
    ELSE IF ~ContainsKey(d.epics, epic_id) THEN Failed(d, "EpicNotFound")
    ELSE LET epic == d.epics[epic_id]
             data == [d EXCEPT !.epics = Insert(d.epics, epic_id,
                                            [epic EXCEPT !.status = status])]
         IN Write(d, data, 0, io)

\* update_story_status inserting a story when the id is no key.
update_story_status_upserts(d, story_id, status, io) ==
    IF io = "read_fail" THEN Failed(d, "StoreUnavailable")
    ELSE LET story == IF ContainsKey(d.stories, story_id) THEN d.stories[story_id]
                      ELSE NewStory("", "")
             data == [d EXCEPT !.stories = Insert(d.stories, story_id,
                                              [story EXCEPT !.status = status])]
         IN Write(d, data, 0, io)

update_story_status(d, story_id, status, io) ==
    IF io = "read_fail" THEN Failed(d, "StoreUnavailable")
    ELSE IF ~ContainsKey(d.stories, story_id) THEN Failed(d, "StoryNotFound")
    ELSE LET story == d.stories[story_id]
             data == [d EXCEPT !.stories = Insert(d.stories, story_id,
                                              [story EXCEPT !.status = status])]
         IN Write(d, data, 0, io)

\* -------------------------------------------------------------------- state
VARIABLES
    db,        \* contents of the backing medium (a DBState)
    pages,     \* Navigator.pages, bottom first
    pc,        \* where main's loop stands: "draw", "input" or "stopped"
    reported,  \* TRUE once main has printed an error
    call,      \* the last Store call made and its result
    act,       \* the last action given to Navigator::handle_action
    drawn,     \* what main's last draw_page returned ("none" before the first)
    returned,  \* the ids the successful creates have returned, oldest first
    deleted,   \* the epic ids whose delete_epic has succeeded
    pagecall,  \* the last call made on a page built by hand, and its result
    roundtrip  \* the last state handed to Database::write, and what read gave

vars == <<db, pages, pc, reported, call, act, drawn, returned, deleted, pagecall, roundtrip>>

\* Pages: a record per variant; the ids a variant does not hold are 0.
HomePage == [kind |-> "HomePage", epic_id |-> 0, story_id |-> 0]
EpicDetail(e) == [kind |-> "EpicDetail", epic_id |-> e, story_id |-> 0]
StoryDetail(e, s) == [kind |-> "StoryDetail", epic_id |-> e, story_id |-> s]

NoCall == [op |-> "none", epic_id |-> 0, story_id |-> 0, status |-> "none", res |-> "Ok", id |-> 0]
NoAct == [type |-> "none", epic_id |-> 0, story_id |-> 0, res |-> "Ok", answer |-> "none"]

\* A Store call as recorded in call.
Called(op, e, s, st, r) ==
    [op |-> op, epic_id |-> e, story_id |-> s, status |-> st, res |-> r.res, id |-> r.id]

\* The ids the creates have returned, with the one of the call c if any.
ReturnedBy(c) == IF c.res = "Ok" /\ c.id # 0 THEN Append(returned, c.id) ELSE returned

\* The epic ids deleted so far, with the one of the call c if any.
DeletedBy(c) ==
    IF c.op = "delete_epic" /\ c.res = "Ok" THEN deleted \cup {c.epic_id} ELSE deleted

\* No call made on a page built by hand.
NoPageCall ==
    [op |-> "none", page |-> HomePage, input |-> <<>>, io |-> "ok", res |-> "Ok",
     action |-> [type |-> "none", epic_id |-> 0, story_id |-> 0]]

\* No state handed to Database::write.
NoRoundTrip == [medium |-> "none", written |-> EmptyDB, res |-> "Ok", read |-> EmptyDB]

\* Navigator::new opening the page of an epic when the store holds one.
Navigator_new_opens_epic(d) ==
    IF DOMAIN d.epics = {} THEN <<HomePage>>
    ELSE <<HomePage, EpicDetail(CHOOSE e \in DOMAIN d.epics : TRUE)>>

\* Navigator::new(db): the pages are a HomePage, whatever db holds.
Navigator_new(d) == <<HomePage>>

\* Navigator::new over MockDB::new(): one HomePage over the empty store.
Init ==
    /\ db = EmptyDB
    /\ pages = Navigator_new(db)
    /\ pc = "draw"
    /\ reported = FALSE
    /\ call = NoCall
    /\ act = NoAct
    /\ drawn = "none"
    /\ returned = <<>>
    /\ deleted = {}
    /\ pagecall = NoPageCall
    /\ roundtrip = NoRoundTrip

\* ------------------------------------------------- the Store called directly
CreateEpic(IO) ==
    \E name \in Names, io \in IO :
        /\ db.last_item_id < MaxId
        /\ \E r \in {create_epic(db, NewEpic(name, ""), io)} :
            /\ db' = r.db
            /\ call' = Called("create_epic", 0, 0, "none", r)
            /\ returned' = ReturnedBy(call')
            /\ UNCHANGED <<pages, pc, reported, act, drawn, deleted, pagecall, roundtrip>>

CreateStory(IO) ==
    \E name \in Names, epic_id \in Ids, io \in IO :
        /\ db.last_item_id < MaxId
        /\ \E r \in {create_story(db, NewStory(name, ""), epic_id, io)} :
            /\ db' = r.db
            /\ call' = Called("create_story", epic_id, 0, "none", r)
            /\ returned' = ReturnedBy(call')
            /\ UNCHANGED <<pages, pc, reported, act, drawn, deleted, pagecall, roundtrip>>

DeleteEpic(IO) ==
    \E epic_id \in Ids, io \in IO :
        /\ \E r \in {delete_epic(db, epic_id, io)} :
            /\ db' = r.db
            /\ call' = Called("delete_epic", epic_id, 0, "none", r)
            /\ deleted' = DeletedBy(call')
            /\ UNCHANGED <<pages, pc, reported, act, drawn, returned, pagecall, roundtrip>>

DeleteStory(IO) ==
    \E epic_id \in Ids, story_id \in Ids, io \in IO :
        /\ \E r \in {delete_story(db, epic_id, story_id, io)} :
            /\ db' = r.db
            /\ call' = Called("delete_story", epic_id, story_id, "none", r)
            /\ UNCHANGED <<pages, pc, reported, act, drawn, returned, deleted, pagecall, roundtrip>>

UpdateEpicStatus(IO) ==
    \E epic_id \in Ids, status \in PickedStatuses, io \in IO :
        /\ \E r \in {update_epic_status(db, epic_id, status, io)} :
            /\ db' = r.db
            /\ call' = Called("update_epic_status", epic_id, 0, status, r)
            /\ UNCHANGED <<pages, pc, reported, act, drawn, returned, deleted, pagecall, roundtrip>>

UpdateStoryStatus(IO) ==
    \E story_id \in Ids, status \in PickedStatuses, io \in IO :
        /\ \E r \in {update_story_status(db, story_id, status, io)} :
            /\ db' = r.db
            /\ call' = Called("update_story_status", 0, story_id, status, r)
            /\ UNCHANGED <<pages, pc, reported, act, drawn, returned, deleted, pagecall, roundtrip>>

NextStore ==
    \/ CreateEpic(IOAll)
    \/ CreateStory(IOAll)
    \/ DeleteEpic(IOAll)
    \/ DeleteStory(IOAll)
    \/ UpdateEpicStatus(IOAll)
    \/ UpdateStoryStatus(IOAll)

SpecStore == Init /\ [][NextStore]_vars

\* The Store over MockDB, whose read and write always succeed.
NextStoreFine ==
    \/ CreateEpic(IOFine)
    \/ CreateStory(IOFine)
    \/ DeleteEpic(IOFine)
    \/ DeleteStory(IOFine)
    \/ UpdateEpicStatus(IOFine)
    \/ UpdateStoryStatus(IOFine)

SpecStoreFine == Init /\ [][NextStoreFine]_vars

\* The update operations called with every status of the enum, over MockDB.
UpdateEpicStatusAny ==
    \E epic_id \in Ids, status \in Statuses :
        /\ \E r \in {update_epic_status(db, epic_id, status, "ok")} :
            /\ db' = r.db
            /\ call' = Called("update_epic_status", epic_id, 0, status, r)
            /\ UNCHANGED <<pages, pc, reported, act, drawn, returned, deleted, pagecall, roundtrip>>

UpdateStoryStatusAny ==
    \E story_id \in Ids, status \in Statuses :
        /\ \E r \in {update_story_status(db, story_id, status, "ok")} :
            /\ db' = r.db
            /\ call' = Called("update_story_status", 0, story_id, status, r)
            /\ UNCHANGED <<pages, pc, reported, act, drawn, returned, deleted, pagecall, roundtrip>>

\* Entities created and their statuses set to any status, over MockDB.
NextStatus ==
    \/ CreateEpic(IOFine)
    \/ CreateStory(IOFine)
    \/ UpdateEpicStatusAny
    \/ UpdateStoryStatusAny

SpecStatus == Init /\ [][NextStatus]_vars

\* ---------------------------------------------------------------- navigator
\* models::Action, a record per variant; the ids a variant does not hold are 0.
Action(type, e, s) == [type |-> type, epic_id |-> e, story_id |-> s]

\* The actions handed to the Navigator directly: the two pushes of its
\* navigation tests (epic 1, story 2 of epic 1), and every other action over
\* the ids the store can hold.
Actions ==
    {Action("NavigateToEpicDetail", 1, 0), Action("NavigateToStoryDetail", 1, 2)}
    \cup {Action("NavigateToPreviousPage", 0, 0), Action("CreateEpic", 0, 0), Action("Exit", 0, 0)}
    \cup {Action("UpdateEpicStatus", e, 0) : e \in NavIds}
    \cup {Action("DeleteEpic", e, 0) : e \in NavIds}
    \cup {Action("CreateStory", e, 0) : e \in NavIds}
    \cup {Action("UpdateStoryStatus", 0, s) : s \in NavIds}
    \cup {Action("DeleteStory", e, s) : e \in NavIds, s \in NavIds}

\* What the prompt an action invokes may answer: the fields of the new item,
\* Some(status) or None ("none"), true ("yes") or false ("no"); "none" for
\* an action that invokes no prompt.
Answers(action) ==
    CASE action.type \in {"CreateEpic", "CreateStory"} -> Names
      [] action.type \in {"UpdateEpicStatus", "UpdateStoryStatus"} -> PickedStatuses \cup {"none"}
      [] action.type \in {"DeleteEpic", "DeleteStory"} -> {"yes", "no"}
      [] OTHER -> {"none"}

\* The outcome of handle_action: its result, the stack and the medium
\* afterwards, and the Store call it made (NoCall when it made none).
Handled(res, ps, d, c) == [res |-> res, pages |-> ps, db |-> d, call |-> c]

\* The arm popping before it looks at the result of the Store call.
AfterCall_pops_first(old, ps, r, c) == Handled(r.res, ps, r.db, c)

\* The arm forgetting the pop that follows a successful delete.
AfterCall_keeps_stack(old, ps, r, c) == Handled(r.res, old, r.db, c)

\* An arm that makes the Store call r, recorded as c, and on success leaves
\* the stack as ps; the ? operator returns the failure with the stack as it was.
AfterCall(old, ps, r, c) == Handled(r.res, IF r.res = "Ok" THEN ps ELSE old, r.db, c)

\* The arms of handle_action that call the Store.
handle_CreateEpic(ps, d, action, answer, io) ==
    LET r == create_epic(d, NewEpic(answer, ""), io)
    IN AfterCall(ps, ps, r, Called("create_epic", 0, 0, "none", r))

handle_UpdateEpicStatus(ps, d, action, answer, io) ==
    IF answer = "none" THEN Handled("Ok", ps, d, NoCall)
    ELSE LET r == update_epic_status(d, action.epic_id, answer, io)
         IN AfterCall(ps, ps, r, Called("update_epic_status", action.epic_id, 0, answer, r))

handle_DeleteEpic(ps, d, action, answer, io) ==
    IF answer # "yes" THEN Handled("Ok", ps, d, NoCall)
    ELSE LET r == delete_epic(d, action.epic_id, io)
         IN AfterCall(ps, Pop(ps), r, Called("delete_epic", action.epic_id, 0, "none", r))

handle_CreateStory(ps, d, action, answer, io) ==
    LET r == create_story(d, NewStory(answer, ""), action.epic_id, io)
    IN AfterCall(ps, ps, r, Called("create_story", action.epic_id, 0, "none", r))

\* The UpdateStoryStatus arm taking Open when the prompt yields no status.
handle_UpdateStoryStatus_defaults(ps, d, action, answer, io) ==
    LET status == IF answer = "none" THEN "Open" ELSE answer
        r == update_story_status(d, action.story_id, status, io)
    IN AfterCall(ps, ps, r, Called("update_story_status", 0, action.story_id, status, r))

handle_UpdateStoryStatus(ps, d, action, answer, io) ==
    IF answer = "none" THEN Handled("Ok", ps, d, NoCall)
    ELSE LET r == update_story_status(d, action.story_id, answer, io)
         IN AfterCall(ps, ps, r, Called("update_story_status", 0, action.story_id, answer, r))

\* The DeleteStory arm not asking for the confirmation.
handle_DeleteStory_unconfirmed(ps, d, action, answer, io) ==
    LET r == delete_story(d, action.epic_id, action.story_id, io)
    IN AfterCall(ps, Pop(ps), r,
                 Called("delete_story", action.epic_id, action.story_id, "none", r))

handle_DeleteStory(ps, d, action, answer, io) ==
    IF answer # "yes" THEN Handled("Ok", ps, d, NoCall)
    ELSE LET r == delete_story(d, action.epic_id, action.story_id, io)
         IN AfterCall(ps, Pop(ps), r,
                      Called("delete_story", action.epic_id, action.story_id, "none", r))

\* handle_action popping one page on Exit.
handle_action_exit_pops(ps, d, action, answer, io) ==
    CASE action.type = "NavigateToEpicDetail" ->
            Handled("Ok", Push(ps, EpicDetail(action.epic_id)), d, NoCall)
      [] action.type = "NavigateToStoryDetail" ->
            Handled("Ok", Push(ps, StoryDetail(action.epic_id, action.story_id)), d, NoCall)
      [] action.type = "NavigateToPreviousPage" -> Handled("Ok", Pop(ps), d, NoCall)
      [] action.type = "CreateEpic" -> handle_CreateEpic(ps, d, action, answer, io)
      [] action.type = "UpdateEpicStatus" -> handle_UpdateEpicStatus(ps, d, action, answer, io)
      [] action.type = "DeleteEpic" -> handle_DeleteEpic(ps, d, action, answer, io)
      [] action.type = "CreateStory" -> handle_CreateStory(ps, d, action, answer, io)
      [] action.type = "UpdateStoryStatus" -> handle_UpdateStoryStatus(ps, d, action, answer, io)
      [] action.type = "DeleteStory" -> handle_DeleteStory(ps, d, action, answer, io)
      [] action.type = "Exit" -> Handled("Ok", Pop(ps), d, NoCall)

\* Navigator::handle_action
handle_action(ps, d, action, answer, io) ==
    CASE action.type = "NavigateToEpicDetail" ->
            Handled("Ok", Push(ps, EpicDetail(action.epic_id)), d, NoCall)
      [] action.type = "NavigateToStoryDetail" ->
            Handled("Ok", Push(ps, StoryDetail(action.epic_id, action.story_id)), d, NoCall)
      [] action.type = "NavigateToPreviousPage" -> Handled("Ok", Pop(ps), d, NoCall)
      [] action.type = "CreateEpic" -> handle_CreateEpic(ps, d, action, answer, io)
      [] action.type = "UpdateEpicStatus" -> handle_UpdateEpicStatus(ps, d, action, answer, io)
      [] action.type = "DeleteEpic" -> handle_DeleteEpic(ps, d, action, answer, io)
      [] action.type = "CreateStory" -> handle_CreateStory(ps, d, action, answer, io)
      [] action.type = "UpdateStoryStatus" -> handle_UpdateStoryStatus(ps, d, action, answer, io)
      [] action.type = "DeleteStory" -> handle_DeleteStory(ps, d, action, answer, io)
      [] action.type = "Exit" -> Handled("Ok", <<>>, d, NoCall)

\* An action as recorded in act, with the prompt's answer and the result.
Acted(action, answer, res) ==
    [type |-> action.type, epic_id |-> action.epic_id, story_id |-> action.story_id,
     res |-> res, answer |-> answer]

\* The creates and the pushes the bounds still allow.
WithinBounds(action) ==
    /\ action.type \in {"CreateEpic", "CreateStory"} => db.last_item_id < MaxNavId
    /\ action.type \in {"NavigateToEpicDetail", "NavigateToStoryDetail"} => Len(pages) < MaxPages

\* What the Store call of an action may meet at the medium; an action that
\* makes no Store call meets nothing.
Meets(action, answer, IO) ==
    IF \/ action.type \in {"CreateEpic", "CreateStory"}
       \/ action.type \in {"UpdateEpicStatus", "UpdateStoryStatus"} /\ answer # "none"
       \/ action.type \in {"DeleteEpic", "DeleteStory"} /\ answer = "yes"
    THEN IO ELSE {"ok"}

\* One call of Navigator::handle_action, as its unit tests make it.
HandleAction(IO) ==
    \E action \in Actions :
        \E answer \in Answers(action) : \E io \in Meets(action, answer, IO) :
            /\ WithinBounds(action)
            /\ \E h \in {handle_action(pages, db, action, answer, io)} :
                /\ pages' = h.pages
                /\ db' = h.db
                /\ call' = h.call
                /\ act' = Acted(action, answer, h.res)
                /\ returned' = ReturnedBy(h.call)
                /\ deleted' = DeletedBy(h.call)
                /\ UNCHANGED <<pc, reported, drawn, pagecall, roundtrip>>

\* The Navigator over a medium whose write may fail.
NextNav == HandleAction(IOWrites)

SpecNav == Init /\ [][NextNav]_vars

\* The actions of the Navigator's navigation tests, with the creates that
\* fill the store: pushes of every epic the store can hold and of story 2 of
\* epic 1, the way back, Exit.
NavigationActions ==
    {Action("NavigateToEpicDetail", e, 0) : e \in NavIds}
    \cup {Action("NavigateToStoryDetail", 1, 2)}
    \cup {Action("NavigateToPreviousPage", 0, 0), Action("Exit", 0, 0), Action("CreateEpic", 0, 0)}
    \cup {Action("CreateStory", e, 0) : e \in NavIds}

\* One call of Navigator::handle_action with a navigation action or a
\* create, over MockDB.
HandleNavigation ==
    \E action \in NavigationActions : \E answer \in Answers(action) :
        /\ action.type \in {"CreateEpic", "CreateStory"} => db.last_item_id < MaxNavId
        /\ action.type \in {"NavigateToEpicDetail", "NavigateToStoryDetail"} =>
               Len(pages) < MaxDepth
        /\ \E h \in {handle_action(pages, db, action, answer, "ok")} :
            /\ pages' = h.pages
            /\ db' = h.db
            /\ call' = h.call
            /\ act' = Acted(action, answer, h.res)
            /\ returned' = ReturnedBy(h.call)
            /\ deleted' = DeletedBy(h.call)
            /\ UNCHANGED <<pc, reported, drawn, pagecall, roundtrip>>

\* Navigator::new(Rc::clone(&db)) over the store as it stands, as the tests
\* construct it after filling the store.
New ==
    /\ pages' = Navigator_new(db)
    /\ act' = Acted(Action("new", 0, 0), "none", "Ok")
    /\ call' = NoCall
    /\ UNCHANGED <<db, pc, reported, drawn, returned, deleted, pagecall, roundtrip>>

\* Navigators constructed and navigated over MockDB.
NextNavPages == HandleNavigation \/ New

SpecNavPages == Init /\ [][NextNavPages]_vars

\* -------------------------------------------------------------------- pages
\* A line of input is a sequence of characters.
Digits == <<"0", "1", "2", "3", "4", "5", "6", "7", "8", "9">>
IsDigit(c) == \E i \in 1..10 : Digits[i] = c
DigitValue(c) == (CHOOSE i \in 1..10 : Digits[i] = c) - 1
IsWhitespace(c) == c \in {" ", "\n", "\t"}
\* u32::MAX is 4294967295: its digits but the last, and its last digit.
U32MaxDiv10 == 429496729
U32MaxMod10 == 5

\* The value of a run of digits read after the value acc, -1 when a character
\* is no digit or the value leaves u32.
RECURSIVE ParseDigits(_, _)
ParseDigits(s, acc) ==
    IF Len(s) = 0 THEN acc
    ELSE IF ~IsDigit(Head(s)) THEN -1
    ELSE LET digit == DigitValue(Head(s))
         IN IF acc > U32MaxDiv10 \/ (acc = U32MaxDiv10 /\ digit > U32MaxMod10) THEN -1
            ELSE ParseDigits(Tail(s), acc * 10 + digit)

\* str::parse::<u32>: an optional "+" and at least one digit; -1 stands for Err.
ParseU32(s) ==
    LET digits == IF Len(s) > 0 /\ Head(s) = "+" THEN Tail(s) ELSE s
    IN IF Len(digits) = 0 THEN -1 ELSE ParseDigits(digits, 0)

\* u32::to_string: the decimal digits of n, no sign, no leading zero.
RECURSIVE FormatU32(_)
FormatU32(n) ==
    IF n < 10 THEN <<Digits[n + 1]>>
    ELSE FormatU32(n \div 10) \o <<Digits[(n % 10) + 1]>>

\* str::trim: the line without its leading and trailing whitespace.
RECURSIVE TrimStart(_)
TrimStart(s) ==
    IF Len(s) > 0 /\ IsWhitespace(Head(s)) THEN TrimStart(Tail(s)) ELSE s
RECURSIVE TrimEnd(_)
TrimEnd(s) ==
    IF Len(s) > 0 /\ IsWhitespace(s[Len(s)]) THEN TrimEnd(SubSeq(s, 1, Len(s) - 1)) ELSE s
Trim(s) == TrimEnd(TrimStart(s))

\* The result of draw_page: "Ok" or the failure.
HomePage_draw_page(d, io) ==
    IF io = "read_fail" THEN "StoreUnavailable" ELSE "Ok"

EpicDetail_draw_page(page, d, io) ==
    IF io = "read_fail" THEN "StoreUnavailable"
    ELSE IF ~ContainsKey(d.epics, page.epic_id) THEN "EpicNotFound"
    ELSE "Ok"

StoryDetail_draw_page(page, d, io) ==
    IF io = "read_fail" THEN "StoreUnavailable"
    ELSE IF ~ContainsKey(d.stories, page.story_id) THEN "StoryNotFound"
    ELSE "Ok"

\* Page::draw_page, dispatched on the page's type.
draw_page(page, d, io) ==
    CASE page.kind = "HomePage" -> HomePage_draw_page(d, io)
      [] page.kind = "EpicDetail" -> EpicDetail_draw_page(page, d, io)
      [] page.kind = "StoryDetail" -> StoryDetail_draw_page(page, d, io)

\* The result of handle_input: res is "Ok" or the failure, action the action
\* of Ok(Some(action)), NoAction for Ok(None) and for a failure.
NoAction == Action("none", 0, 0)
Interpreted(action) == [res |-> "Ok", action |-> action]
NotInterpreted(why) == [res |-> why, action |-> NoAction]

\* HomePage::handle_input looking the id up among the stories too.
HomePage_handle_input_any_id(input, d, io) ==
    CASE input = <<"q">> -> Interpreted(Action("Exit", 0, 0))
      [] input = <<"c">> -> Interpreted(Action("CreateEpic", 0, 0))
      [] OTHER ->
            IF io = "read_fail" THEN NotInterpreted("StoreUnavailable")
            ELSE LET epic_id == ParseU32(input)
                 IN IF epic_id = -1 THEN Interpreted(NoAction)
                    ELSE IF ContainsKey(d.epics, epic_id) \/ ContainsKey(d.stories, epic_id)
                         THEN Interpreted(Action("NavigateToEpicDetail", epic_id, 0))
                         ELSE Interpreted(NoAction)

\* HomePage::handle_input answering "p" as the detail pages do.
HomePage_handle_input_goes_back(input, d, io) ==
    CASE input = <<"q">> -> Interpreted(Action("Exit", 0, 0))
      [] input = <<"c">> -> Interpreted(Action("CreateEpic", 0, 0))
      [] input = <<"p">> -> Interpreted(Action("NavigateToPreviousPage", 0, 0))
      [] OTHER ->
            IF io = "read_fail" THEN NotInterpreted("StoreUnavailable")
            ELSE LET epic_id == ParseU32(input)
                 IN IF epic_id = -1 THEN Interpreted(NoAction)
                    ELSE IF ContainsKey(d.epics, epic_id)
                         THEN Interpreted(Action("NavigateToEpicDetail", epic_id, 0))
                         ELSE Interpreted(NoAction)

HomePage_handle_input(input, d, io) ==
    CASE input = <<"q">> -> Interpreted(Action("Exit", 0, 0))
      [] input = <<"c">> -> Interpreted(Action("CreateEpic", 0, 0))
      [] OTHER ->
            IF io = "read_fail" THEN NotInterpreted("StoreUnavailable")
            ELSE LET epic_id == ParseU32(input)
                 IN IF epic_id = -1 THEN Interpreted(NoAction)
                    ELSE IF ContainsKey(d.epics, epic_id)
                         THEN Interpreted(Action("NavigateToEpicDetail", epic_id, 0))
                         ELSE Interpreted(NoAction)

\* EpicDetail::handle_input accepting only the stories of its own epic.
EpicDetail_handle_input_own_stories(page, input, d, io) ==
    IF io = "read_fail" THEN NotInterpreted("StoreUnavailable")
    ELSE LET stories == d.stories
             epic_id == page.epic_id
         IN CASE input = <<"p">> -> Interpreted(Action("NavigateToPreviousPage", 0, 0))
              [] input = <<"u">> -> Interpreted(Action("UpdateEpicStatus", epic_id, 0))
              [] input = <<"d">> -> Interpreted(Action("DeleteEpic", epic_id, 0))
              [] input = <<"c">> -> Interpreted(Action("CreateStory", epic_id, 0))
              [] OTHER ->
                    LET story_id == ParseU32(input)
                    IN IF story_id = -1 THEN Interpreted(NoAction)
                       ELSE IF /\ ContainsKey(stories, story_id)
                               /\ ContainsKey(d.epics, epic_id)
                               /\ story_id \in Range(d.epics[epic_id].stories)
                            THEN Interpreted(Action("NavigateToStoryDetail", epic_id, story_id))
                            ELSE Interpreted(NoAction)

\* EpicDetail::handle_input building NavigateToStoryDetail with the two ids
\* in each other's place.
EpicDetail_handle_input_swaps_ids(page, input, d, io) ==
    IF io = "read_fail" THEN NotInterpreted("StoreUnavailable")
    ELSE LET stories == d.stories
             epic_id == page.epic_id
         IN CASE input = <<"p">> -> Interpreted(Action("NavigateToPreviousPage", 0, 0))
              [] input = <<"u">> -> Interpreted(Action("UpdateEpicStatus", epic_id, 0))
              [] input = <<"d">> -> Interpreted(Action("DeleteEpic", epic_id, 0))
              [] input = <<"c">> -> Interpreted(Action("CreateStory", epic_id, 0))
              [] OTHER ->
                    LET story_id == ParseU32(input)
                    IN IF story_id = -1 THEN Interpreted(NoAction)
                       ELSE IF ContainsKey(stories, story_id)
                            THEN Interpreted(Action("NavigateToStoryDetail", story_id, epic_id))
                            ELSE Interpreted(NoAction)

EpicDetail_handle_input(page, input, d, io) ==
    IF io = "read_fail" THEN NotInterpreted("StoreUnavailable")
    ELSE LET stories == d.stories
             epic_id == page.epic_id
         IN CASE input = <<"p">> -> Interpreted(Action("NavigateToPreviousPage", 0, 0))
              [] input = <<"u">> -> Interpreted(Action("UpdateEpicStatus", epic_id, 0))
              [] input = <<"d">> -> Interpreted(Action("DeleteEpic", epic_id, 0))
              [] input = <<"c">> -> Interpreted(Action("CreateStory", epic_id, 0))
              [] OTHER ->
                    LET story_id == ParseU32(input)
                    IN IF story_id = -1 THEN Interpreted(NoAction)
                       ELSE IF ContainsKey(stories, story_id)
                            THEN Interpreted(Action("NavigateToStoryDetail", epic_id, story_id))
                            ELSE Interpreted(NoAction)

\* StoryDetail::handle_input with the numeric branch of the other pages.
StoryDetail_handle_input_numeric(page, input) ==
    CASE input = <<"p">> -> Interpreted(Action("NavigateToPreviousPage", 0, 0))
      [] input = <<"u">> -> Interpreted(Action("UpdateStoryStatus", 0, page.story_id))
      [] input = <<"d">> -> Interpreted(Action("DeleteStory", page.epic_id, page.story_id))
      [] OTHER ->
            LET story_id == ParseU32(input)
            IN IF story_id = -1 THEN Interpreted(NoAction)
               ELSE Interpreted(Action("NavigateToStoryDetail", page.epic_id, story_id))

StoryDetail_handle_input(page, input) ==
    CASE input = <<"p">> -> Interpreted(Action("NavigateToPreviousPage", 0, 0))
      [] input = <<"u">> -> Interpreted(Action("UpdateStoryStatus", 0, page.story_id))
      [] input = <<"d">> -> Interpreted(Action("DeleteStory", page.epic_id, page.story_id))
      [] OTHER -> Interpreted(NoAction)

\* Page::handle_input, dispatched on the page's type.
handle_input(page, input, d, io) ==
    CASE page.kind = "HomePage" -> HomePage_handle_input(input, d, io)
      [] page.kind = "EpicDetail" -> EpicDetail_handle_input(page, input, d, io)
      [] page.kind = "StoryDetail" -> StoryDetail_handle_input(page, input)

\* ---------------------------------------------------------------- main loop
\* The lines the user types: the commands, the ids the store can hold (bare,
\* with a newline, with a sign, with a leading zero), an id it cannot hold,
\* the empty line and junk.
Lines ==
    {<<"q">>, <<"c">>, <<"p">>, <<"u">>, <<"d">>, <<>>, <<"j">>, <<"q", "9">>,
     <<"d", "\n">>, <<"9", "9">>}
    \cup {<<Digits[i + 1]>> : i \in Ids}
    \cup {<<Digits[i + 1], "\n">> : i \in Ids}
    \cup {<<"+", Digits[2]>>, <<"0", Digits[2]>>}

\* What a read of the medium may meet.
Reads(IO) == IO \ {"write_fail"}

\* Navigator::get_current_page
get_current_page(ps) == ps[Len(ps)]

\* The top of main's loop: no page left ends the loop; a page that fails to
\* draw is reported and ends the loop; otherwise a line is awaited.
DrawPage(IO) ==
    /\ pc = "draw"
    /\ \E io \in Reads(IO) :
        IF Len(pages) = 0
        THEN /\ pc' = "stopped"
             /\ UNCHANGED <<reported, drawn>>
        ELSE /\ drawn' = draw_page(get_current_page(pages), db, io)
             /\ pc' = IF drawn' = "Ok" THEN "input" ELSE "stopped"
             /\ reported' = (drawn' # "Ok")
    /\ UNCHANGED <<db, pages, call, act, returned, deleted, pagecall, roundtrip>>

\* The rest of the loop's body: the line is trimmed and handed to the page;
\* a failure is reported and ends the loop; an action is handed to the
\* Navigator, whose result main drops with .ok(); the loop goes round.
HandleInput(IO) ==
    /\ pc = "input"
    /\ \E line \in Lines : \E io \in Reads(IO) :
        \E result \in {handle_input(get_current_page(pages), Trim(line), db, io)} :
        LET action == result.action
        IN IF result.res # "Ok"
           THEN /\ pc' = "stopped"
                /\ reported' = TRUE
                /\ act' = NoAct
                /\ call' = NoCall
                /\ UNCHANGED <<db, pages, drawn, returned, deleted, pagecall, roundtrip>>
           ELSE IF action = NoAction
           THEN /\ pc' = "draw"
                /\ act' = NoAct
                /\ call' = NoCall
                /\ UNCHANGED <<db, pages, reported, drawn, returned, deleted, pagecall, roundtrip>>
           ELSE \E answer \in Answers(action) : \E io2 \in Meets(action, answer, IO) :
                /\ action.type \in {"CreateEpic", "CreateStory"} => db.last_item_id < MaxId
                /\ \E h \in {handle_action(pages, db, action, answer, io2)} :
                    /\ pages' = h.pages
                    /\ db' = h.db
                    /\ call' = h.call
                    /\ act' = Acted(action, answer, h.res)
                    /\ returned' = ReturnedBy(h.call)
                    /\ deleted' = DeletedBy(h.call)
                    /\ pc' = "draw"
                    /\ UNCHANGED <<reported, drawn, pagecall, roundtrip>>

\* main over a medium that may fail.
NextMain == DrawPage(IOAll) \/ HandleInput(IOAll)
SpecMain == Init /\ [][NextMain]_vars

\* main over a medium whose reads and writes succeed.
NextMainFine == DrawPage(IOFine) \/ HandleInput(IOFine)
SpecMainFine == Init /\ [][NextMainFine]_vars

\* ------------------------------------------------------ pages built by hand
\* The pages a test builds over the store: every page variant over the ids
\* the store can hold, whether or not the store holds them.
Pages ==
    {HomePage} \cup {EpicDetail(e) : e \in Ids}
    \cup {StoryDetail(e, s) : e \in Ids, s \in Ids}

\* A call on a page as recorded in pagecall: the page, the line it was given
\* (none for draw_page), what the read of the medium met, the result and the
\* action of Ok(Some(action)).
PageCalled(op, page, input, io, res, action) ==
    [op |-> op, page |-> page, input |-> input, io |-> io, res |-> res, action |-> action]

\* The store filled through the JiraDatabase over MockDB, as the pages' tests
\* fill it before they call the page.
FillStore ==
    /\ pagecall = NoPageCall
    /\ \/ CreateEpic(IOFine)
       \/ CreateStory(IOFine)
       \/ DeleteEpic(IOFine)

\* page.draw_page() on a page built over the store as it stands.
DrawOn(IO) ==
    /\ pagecall = NoPageCall
    /\ \E page \in Pages, io \in Reads(IO) :
        pagecall' = PageCalled("draw_page", page, <<>>, io, draw_page(page, db, io), NoAction)
    /\ UNCHANGED <<db, pages, pc, reported, call, act, drawn, returned, deleted, roundtrip>>

\* handle_input carrying out the DeleteEpic it reads, in the place of the
\* Navigator.
InterpretOn_deletes(IO) ==
    /\ pagecall = NoPageCall
    /\ \E page \in Pages, line \in Lines, io \in Reads(IO) :
        \E result \in {handle_input(page, line, db, io)} :
            /\ pagecall' = PageCalled("handle_input", page, line, io, result.res, result.action)
            /\ db' = IF result.action.type = "DeleteEpic"
                     THEN delete_epic(db, result.action.epic_id, "ok").db
                     ELSE db
    /\ UNCHANGED <<pages, pc, reported, call, act, drawn, returned, deleted, roundtrip>>

\* page.handle_input(line) on a page built over the store as it stands; the
\* line is handed over as it is, untrimmed.
InterpretOn(IO) ==
    /\ pagecall = NoPageCall
    /\ \E page \in Pages, line \in Lines, io \in Reads(IO) :
        \E result \in {handle_input(page, line, db, io)} :
            pagecall' = PageCalled("handle_input", page, line, io, result.res, result.action)
    /\ UNCHANGED <<db, pages, pc, reported, call, act, drawn, returned, deleted, roundtrip>>

\* One call on a page over a store that may have become unreadable.
NextPage == FillStore \/ DrawOn(IOAll) \/ InterpretOn(IOAll)
SpecPage == Init /\ [][NextPage]_vars

\* One call on a page over MockDB.
NextPageFine == FillStore \/ DrawOn(IOFine) \/ InterpretOn(IOFine)
SpecPageFine == Init /\ [][NextPageFine]_vars

\* ------------------------------------------------------------ serialization
\* What serde_json writes for a DBState and how it reads it back. A document
\* is modelled by its tokens: a string by the characters between its quotes,
\* escapes included, a number by its digits, an array by the sequence of its
\* elements, an object with fixed fields by a record, and a map by the set
\* of its <<key, value>> members, in no order.

\* The name serde gives a variant of Status: the identifier of the variant.
StatusNames ==
    [Open |-> <<"O", "p", "e", "n">>,
     InProgress |-> <<"I", "n", "P", "r", "o", "g", "r", "e", "s", "s">>,
     Resolved |-> <<"R", "e", "s", "o", "l", "v", "e", "d">>,
     Closed |-> <<"C", "l", "o", "s", "e", "d">>]

\* Status written the way its Display prints it, "In Progress" with a space.
StatusToJson_display(status) ==
    IF status = "InProgress"
    THEN <<"I", "n", " ", "P", "r", "o", "g", "r", "e", "s", "s">>
    ELSE StatusNames[status]

\* Serialize for Status.
StatusToJson(status) == StatusNames[status]

\* Deserialize for Status: the variant with that name, "none" when there is
\* no such variant.
StatusFromJson(t) ==
    IF \E status \in Statuses : StatusNames[status] = t
    THEN CHOOSE status \in Statuses : StatusNames[status] = t
    ELSE "none"

\* A string as serde_json writes it: quote, backslash and newline escaped.
RECURSIVE StringToJson(_)
StringToJson(str) ==
    IF Len(str) = 0 THEN <<>>
    ELSE LET c == Head(str)
             escaped == CASE c = "\"" -> <<"\\", "\"">>
                          [] c = "\\" -> <<"\\", "\\">>
                          [] c = "\n" -> <<"\\", "n">>
                          [] OTHER -> <<c>>
         IN escaped \o StringToJson(Tail(str))

\* The characters a written string stands for: acc extended by them, or
\* <<"invalid">> when an escape is cut short or unknown.
RECURSIVE StringFromJson(_, _)
StringFromJson(t, acc) ==
    IF Len(t) = 0 THEN acc
    ELSE IF Head(t) # "\\" THEN StringFromJson(Tail(t), Append(acc, Head(t)))
    ELSE IF Len(t) < 2 THEN <<"invalid">>
    ELSE LET c == t[2]
         IN IF c \in {"\"", "\\"} THEN StringFromJson(SubSeq(t, 3, Len(t)), Append(acc, c))
            ELSE IF c = "n" THEN StringFromJson(SubSeq(t, 3, Len(t)), Append(acc, "\n"))
            ELSE <<"invalid">>

\* A u32 read from the digits of a JSON number or of a map key: no sign and
\* no leading zero; -1 stands for the error.
U32FromJson(t) ==
    IF Len(t) = 0 THEN -1
    ELSE IF Len(t) > 1 /\ Head(t) = "0" THEN -1
    ELSE ParseDigits(t, 0)

\* Serialize for Story and Epic.
StoryToJson(story) ==
    [name |-> StringToJson(story.name),
     description |-> StringToJson(story.description),
     status |-> StatusToJson(story.status)]

EpicToJson(epic) ==
    [name |-> StringToJson(epic.name),
     description |-> StringToJson(epic.description),
     status |-> StatusToJson(epic.status),
     stories |-> [i \in 1..Len(epic.stories) |-> FormatU32(epic.stories[i])]]

\* Deserialize for Story and Epic; a field that does not read makes the
\* whole document fail.
StoryFromJson(j) ==
    [name |-> StringFromJson(j.name, <<>>),
     description |-> StringFromJson(j.description, <<>>),
     status |-> StatusFromJson(j.status)]

EpicFromJson(j) ==
    [name |-> StringFromJson(j.name, <<>>),
     description |-> StringFromJson(j.description, <<>>),
     status |-> StatusFromJson(j.status),
     stories |-> [i \in 1..Len(j.stories) |-> U32FromJson(j.stories[i])]]

StoryReads(j) ==
    /\ StringFromJson(j.name, <<>>) # <<"invalid">>
    /\ StringFromJson(j.description, <<>>) # <<"invalid">>
    /\ StatusFromJson(j.status) # "none"

EpicReads(j) ==
    /\ StoryReads(j)
    /\ \A i \in 1..Len(j.stories) : U32FromJson(j.stories[i]) # -1

\* serde_json::to_vec(db_state): the maps' keys are written as strings of
\* digits.
ToJson(state) ==
    [last_item_id |-> FormatU32(state.last_item_id),
     epics |-> {<<FormatU32(k), EpicToJson(state.epics[k])>> : k \in DOMAIN state.epics},
     stories |-> {<<FormatU32(k), StoryToJson(state.stories[k])>> : k \in DOMAIN state.stories}]

\* serde_json::from_reader(file): the state the document stands for, or the
\* failure when a member does not read.
FromJson(j) ==
    IF \/ U32FromJson(j.last_item_id) = -1
       \/ \E m \in j.epics : U32FromJson(m[1]) = -1 \/ ~EpicReads(m[2])
       \/ \E m \in j.stories : U32FromJson(m[1]) = -1 \/ ~StoryReads(m[2])
    THEN [res |-> "CorruptState", state |-> EmptyDB]
    ELSE [res |-> "Ok",
          state |->
            [last_item_id |-> U32FromJson(j.last_item_id),
             epics |-> [k \in {U32FromJson(m[1]) : m \in j.epics} |->
                          EpicFromJson((CHOOSE m \in j.epics : U32FromJson(m[1]) = k)[2])],
             stories |-> [k \in {U32FromJson(m[1]) : m \in j.stories} |->
                          StoryFromJson((CHOOSE m \in j.stories : U32FromJson(m[1]) = k)[2])]]]

\* The states handed to Database::write: any value of the type DBState,
\* whether or not a JiraDatabase could have produced it. Strings are
\* sequences of characters here.
ShapeStrings == {<<>>, <<"\"">>, <<"\\", "n">>}
ShapeDescriptions == {<<>>, <<"a", "\n">>}
ShapeLists == {<<>>, <<2>>, <<9, 9, 100>>}
ShapeCounters == {0, 7, 120}
ShapeEpics ==
    [name : ShapeStrings, description : ShapeDescriptions, status : Statuses,
     stories : ShapeLists]
ShapeStories == [name : ShapeStrings, description : ShapeDescriptions, status : Statuses]
ShapeEpicMaps ==
    {<<>>} \cup {Insert(<<>>, 1, e) : e \in ShapeEpics}
    \cup {Insert(Insert(<<>>, 30, e), 4, [e EXCEPT !.stories = <<>>]) : e \in ShapeEpics}
ShapeStoryMaps ==
    {<<>>} \cup {Insert(<<>>, 2, s) : s \in ShapeStories}
    \cup {Insert(Insert(<<>>, 500, s), 1, s) : s \in ShapeStories}
Shapes == [last_item_id : ShapeCounters, epics : ShapeEpicMaps, stories : ShapeStoryMaps]

\* A write followed by a read, as recorded in roundtrip.
RoundTripped(medium, state, r) ==
    [medium |-> medium, written |-> state, res |-> r.res, read |-> r.state]

\* JSONFileDatabase: write(&state) puts the document in a fresh file, read()
\* reads the file back.
WriteReadJSON ==
    /\ roundtrip = NoRoundTrip
    /\ \E state \in Shapes :
        \E r \in {FromJson(ToJson(state))} :
            /\ roundtrip' = RoundTripped("json", state, r)
            /\ db' = IF r.res = "Ok" THEN r.state ELSE db
            /\ UNCHANGED <<pages, pc, reported, call, act, drawn, returned, deleted, pagecall>>

\* MockDB: write(&state) keeps a clone in a fresh MockDB, read() returns a
\* clone of it.
WriteReadMock ==
    /\ roundtrip = NoRoundTrip
    /\ \E state \in Shapes :
        /\ roundtrip' = RoundTripped("mock", state, [res |-> "Ok", state |-> state])
        /\ db' = state
        /\ UNCHANGED <<pages, pc, reported, call, act, drawn, returned, deleted, pagecall>>

\* States written to a working medium and read back.
NextRoundTrip == WriteReadJSON \/ WriteReadMock
SpecRoundTrip == Init /\ [][NextRoundTrip]_vars

\* ------------------------------------------------------------------- claims
\* C1: in every state the Store operations reach from the empty store, every
\* id in an epic's stories list is a key of the stories map.
NoDanglingStoryId ==
    \A e \in DOMAIN db.epics : Range(db.epics[e].stories) \subseteq DOMAIN db.stories

\* C2: every id a successful create returns is greater than every id an
\* earlier successful create returned, epic or story.
ReturnedIdsIncrease ==
    \A i \in 1..Len(returned) : \A j \in 1..Len(returned) :
        i < j => returned[i] < returned[j]

\* C2's case: a story created after an epic was deleted and other ids returned.
ReturnedIdsIncreaseWitness ==
    /\ Len(returned) >= 3
    /\ deleted # {}
    /\ call.op = "create_story"
    /\ call.res = "Ok"

\* C3: last_item_id is at least every key of the epics map and of the
\* stories map, and no id is a key of both.
CounterCoversKeys ==
    /\ \A id \in (DOMAIN db.epics) \cup (DOMAIN db.stories) : id <= db.last_item_id
    /\ (DOMAIN db.epics) \cap (DOMAIN db.stories) = {}

\* C3's case: both maps hold an entry and an entity has been deleted.
CounterCoversKeysWitness ==
    /\ DOMAIN db.epics # {}
    /\ DOMAIN db.stories # {}
    /\ Cardinality(DOMAIN db.epics) + Cardinality(DOMAIN db.stories) < db.last_item_id

\* C4: in main's loop, once draw_page or handle_action has returned an
\* error, the error has been reported and the loop has stopped.
LoopStopsOnError ==
    (drawn \notin {"Ok", "none"} \/ act.res # "Ok") => (pc = "stopped" /\ reported)

\* C5: when the Store call of an action fails, handle_action returns the
\* failure and the stack is what it was before the call.
StoreFailureKeepsStack ==
    [][(call'.op # "none" /\ call'.res # "Ok")
           => (act'.res = call'.res /\ pages' = pages)]_vars

\* C5's case: a confirmed DeleteStory whose Store call failed, under two pages.
StoreFailureKeepsStackWitness ==
    /\ act.type = "DeleteStory"
    /\ act.answer = "yes"
    /\ call.op = "delete_story"
    /\ call.res # "Ok"
    /\ Len(pages) = 2

\* The ids a page is bound to are keys of the store's maps.
Resolves(page) ==
    /\ page.kind = "EpicDetail" => page.epic_id \in DOMAIN db.epics
    /\ page.kind = "StoryDetail" =>
          (page.epic_id \in DOMAIN db.epics /\ page.story_id \in DOMAIN db.stories)

\* C6: in main's loop over a medium that does not fail, every page of the
\* stack resolves in the store, and no draw_page has failed.
StackResolves ==
    /\ \A i \in 1..Len(pages) : Resolves(pages[i])
    /\ drawn \in {"Ok", "none"}
    /\ ~reported

\* C6's case: an epic was deleted from its page and the page below was drawn.
StackResolvesWitness ==
    /\ act.type = "DeleteEpic"
    /\ act.res = "Ok"
    /\ act.answer = "yes"
    /\ DOMAIN db.epics # {}
    /\ pc = "input"

\* A stack without its top page; the empty stack has none to lose.
AllButTop(ps) == IF Len(ps) = 0 THEN <<>> ELSE SubSeq(ps, 1, Len(ps) - 1)

\* C7: delete_epic of an existing epic succeeds, removes the epic and the
\* stories its list names and leaves every other epic and story as it was;
\* delete_epic of an epic deleted before fails with EpicNotFound.
DeleteEpicCascades ==
    [][/\ (call'.op = "delete_epic" /\ call'.epic_id \in DOMAIN db.epics) =>
              LET id == call'.epic_id IN
              /\ call'.res = "Ok"
              /\ DOMAIN db'.epics = (DOMAIN db.epics) \ {id}
              /\ DOMAIN db'.stories = (DOMAIN db.stories) \ Range(db.epics[id].stories)
              /\ \A e \in DOMAIN db'.epics : db'.epics[e] = db.epics[e]
              /\ \A s \in DOMAIN db'.stories : db'.stories[s] = db.stories[s]
       /\ (call'.op = "delete_epic" /\ call'.epic_id \in deleted) =>
              call'.res = "EpicNotFound"]_vars

\* C7's case: the second delete_epic of an epic has failed, another epic left.
DeleteEpicCascadesWitness ==
    /\ call.op = "delete_epic"
    /\ call.res = "EpicNotFound"
    /\ call.epic_id \in deleted
    /\ DOMAIN db.epics # {}

\* C8: create_story under an id that is no key of the epics map fails with
\* EpicNotFound and leaves last_item_id, epics and stories as they were.
CreateStoryNeedsEpic ==
    [][(call'.op = "create_story" /\ call'.epic_id \notin DOMAIN db.epics)
           => (call'.res = "EpicNotFound" /\ db' = db)]_vars

\* C8's case: create_story was refused under the id of a story.
CreateStoryNeedsEpicWitness ==
    /\ call.op = "create_story"
    /\ call.res = "EpicNotFound"
    /\ call.epic_id \in DOMAIN db.stories

\* C9: a confirmed DeleteEpic calls delete_epic with its epic id and, when
\* the call succeeds, the epic and its stories are gone and exactly the top
\* page is popped; an unconfirmed one changes neither store nor stack.
DeleteEpicPopsTop ==
    [][act'.type = "DeleteEpic" =>
          IF act'.answer = "yes"
          THEN /\ call'.op = "delete_epic"
               /\ call'.epic_id = act'.epic_id
               /\ call'.res = "Ok" =>
                     /\ act'.res = "Ok"
                     /\ pages' = AllButTop(pages)
                     /\ act'.epic_id \notin DOMAIN db'.epics
                     /\ \A s \in Range(db.epics[act'.epic_id].stories) :
                            s \notin DOMAIN db'.stories
          ELSE /\ call'.op = "none"
               /\ act'.res = "Ok"
               /\ db' = db
               /\ pages' = pages]_vars

\* C9's case: epic 1 and its story 2 were deleted from above the Home page.
DeleteEpicPopsTopWitness ==
    /\ act.type = "DeleteEpic"
    /\ act.answer = "yes"
    /\ act.res = "Ok"
    /\ returned = <<1, 2>>
    /\ deleted = {1}
    /\ DOMAIN db.stories = {}
    /\ pages = <<HomePage>>

\* C10: a confirmed DeleteStory calls delete_story with its two ids and, when
\* the call succeeds, the story is in neither the stories map nor that epic's
\* list and exactly the top page is popped; an unconfirmed one changes
\* neither store nor stack.
DeleteStoryPopsTop ==
    [][act'.type = "DeleteStory" =>
          IF act'.answer = "yes"
          THEN /\ call'.op = "delete_story"
               /\ call'.epic_id = act'.epic_id
               /\ call'.story_id = act'.story_id
               /\ call'.res = "Ok" =>
                     /\ act'.res = "Ok"
                     /\ pages' = AllButTop(pages)
                     /\ act'.story_id \notin DOMAIN db'.stories
                     /\ act'.epic_id \in DOMAIN db'.epics
                     /\ act'.story_id \notin Range(db'.epics[act'.epic_id].stories)
          ELSE /\ call'.op = "none"
               /\ act'.res = "Ok"
               /\ db' = db
               /\ pages' = pages]_vars

\* C10's case: story 2 of epic 1 was deleted from above the Home page.
DeleteStoryPopsTopWitness ==
    /\ act.type = "DeleteStory"
    /\ act.answer = "yes"
    /\ act.res = "Ok"
    /\ act.story_id = 2
    /\ returned = <<1, 2>>
    /\ deleted = {}
    /\ DOMAIN db.epics = {1}
    /\ DOMAIN db.stories = {}
    /\ pages = <<HomePage>>

\* C11: delete_story under an id that is no key of the epics map fails with
\* EpicNotFound; under an existing epic it succeeds, whether or not that
\* epic's list holds the story: the story leaves the stories map and that
\* epic's list, and the other stories, the other epics, the rest of that
\* epic and last_item_id stay as they were.
DeleteStoryContract ==
    [][call'.op = "delete_story" =>
          LET e == call'.epic_id
              s == call'.story_id
          IN IF e \notin DOMAIN db.epics
             THEN call'.res = "EpicNotFound"
             ELSE /\ call'.res = "Ok"
                  /\ DOMAIN db'.stories = (DOMAIN db.stories) \ {s}
                  /\ \A t \in DOMAIN db'.stories : db'.stories[t] = db.stories[t]
                  /\ DOMAIN db'.epics = DOMAIN db.epics
                  /\ \A o \in (DOMAIN db.epics) \ {e} : db'.epics[o] = db.epics[o]
                  /\ Range(db'.epics[e].stories) = Range(db.epics[e].stories) \ {s}
                  /\ Len(db'.epics[e].stories) = Cardinality(Range(db'.epics[e].stories))
                  /\ db'.epics[e].name = db.epics[e].name
                  /\ db'.epics[e].description = db.epics[e].description
                  /\ db'.epics[e].status = db.epics[e].status
                  /\ db'.last_item_id = db.last_item_id]_vars

\* C11's case: delete_story succeeded under an epic whose list never held the
\* story, which another epic's list still names.
DeleteStoryContractWitness ==
    /\ call.op = "delete_story"
    /\ call.res = "Ok"
    /\ \E o \in (DOMAIN db.epics) \ {call.epic_id} :
           call.story_id \in Range(db.epics[o].stories)

\* C12: main's loop stops only with the stack empty or an error reported,
\* and the stack goes from non-empty to empty only by handling an Exit.
LoopStopsByExitOrError ==
    /\ [](pc = "stopped" => (Len(pages) = 0 \/ reported))
    /\ [][(Len(pages) # 0 /\ Len(pages') = 0) => act'.type = "Exit"]_vars

\* C12's case: the loop stopped on the stack an Exit emptied, with epics in
\* the store and no error reported.
LoopStopsByExitOrErrorWitness ==
    /\ pc = "stopped"
    /\ Len(pages) = 0
    /\ ~reported
    /\ act.type = "Exit"
    /\ DOMAIN db.epics # {}

\* C13: NavigateToEpicDetail and NavigateToStoryDetail succeed on any stack,
\* put exactly one page on top, bound to the ids of the action, leave the
\* pages below and the store as they were.
NavigatePushesOnePage ==
    [][act'.type \in {"NavigateToEpicDetail", "NavigateToStoryDetail"} =>
          /\ act'.res = "Ok"
          /\ Len(pages') = Len(pages) + 1
          /\ \A i \in 1..Len(pages) : pages'[i] = pages[i]
          /\ pages'[Len(pages')] =
                IF act'.type = "NavigateToEpicDetail"
                THEN [kind |-> "EpicDetail", epic_id |-> act'.epic_id, story_id |-> 0]
                ELSE [kind |-> "StoryDetail", epic_id |-> act'.epic_id,
                      story_id |-> act'.story_id]
          /\ db' = db]_vars

\* C13's case: NavigateToEpicDetail{1} then NavigateToStoryDetail{1, 2} from
\* the Home page.
NavigatePushesOnePageWitness ==
    /\ act.type = "NavigateToStoryDetail"
    /\ pages = <<HomePage, EpicDetail(1), StoryDetail(1, 2)>>

\* C14: NavigateToPreviousPage succeeds and leaves the store as it was; on a
\* stack with pages it removes the top page and no other, on the empty stack
\* it leaves the stack empty.
BackPopsTop ==
    [][act'.type = "NavigateToPreviousPage" =>
          /\ act'.res = "Ok"
          /\ db' = db
          /\ IF Len(pages) = 0 THEN pages' = <<>>
             ELSE /\ Len(pages') = Len(pages) - 1
                  /\ \A i \in 1..Len(pages') : pages'[i] = pages[i]]_vars

\* C14's case: the way back has left the stack empty, over a store with a
\* story.
BackPopsTopWitness ==
    /\ act.type = "NavigateToPreviousPage"
    /\ act.res = "Ok"
    /\ pages = <<>>
    /\ DOMAIN db.stories # {}

\* C15: Exit succeeds on a stack of any depth, leaves the stack empty and the
\* store as it was.
ExitClearsStack ==
    [][act'.type = "Exit" =>
          /\ act'.res = "Ok"
          /\ Len(pages') = 0
          /\ db' = db]_vars

\* C15's case: Exit was handled over a store with a story.
ExitClearsStackWitness ==
    /\ act.type = "Exit"
    /\ act.res = "Ok"
    /\ Len(pages) = 0
    /\ DOMAIN db.stories # {}
    /\ DOMAIN db.epics # {}

\* C16: a Navigator just constructed holds exactly one page, the Home page,
\* whatever the store holds.
NewStartsOnHome ==
    [][act'.type = "new" =>
          /\ Len(pages') = 1
          /\ pages'[1].kind = "HomePage"]_vars

\* C16's case: a Navigator was constructed over a store with an epic and a
\* story.
NewStartsOnHomeWitness ==
    /\ act.type = "new"
    /\ Len(pages) = 1
    /\ DOMAIN db.epics # {}
    /\ DOMAIN db.stories # {}

\* C17: update_epic_status of an existing epic succeeds for every status,
\* the epic's own included, sets that epic's status and leaves its name,
\* description and stories list, every other epic, the stories map and
\* last_item_id as they were; update_story_status of an existing story
\* likewise changes the status of that story and nothing else.
UpdateSetsOnlyStatus ==
    [][/\ (call'.op = "update_epic_status" /\ call'.epic_id \in DOMAIN db.epics) =>
              LET e == call'.epic_id IN
              /\ call'.res = "Ok"
              /\ DOMAIN db'.epics = DOMAIN db.epics
              /\ db'.epics[e].status = call'.status
              /\ db'.epics[e].name = db.epics[e].name
              /\ db'.epics[e].description = db.epics[e].description
              /\ db'.epics[e].stories = db.epics[e].stories
              /\ \A o \in (DOMAIN db.epics) \ {e} : db'.epics[o] = db.epics[o]
              /\ db'.stories = db.stories
              /\ db'.last_item_id = db.last_item_id
       /\ (call'.op = "update_story_status" /\ call'.story_id \in DOMAIN db.stories) =>
              LET s == call'.story_id IN
              /\ call'.res = "Ok"
              /\ DOMAIN db'.stories = DOMAIN db.stories
              /\ db'.stories[s].status = call'.status
              /\ db'.stories[s].name = db.stories[s].name
              /\ db'.stories[s].description = db.stories[s].description
              /\ \A o \in (DOMAIN db.stories) \ {s} : db'.stories[o] = db.stories[o]
              /\ db'.epics = db.epics
              /\ db'.last_item_id = db.last_item_id]_vars

\* C17's case: an epic was set back to Open while its story is Closed and
\* another epic is Resolved.
UpdateSetsOnlyStatusWitness ==
    /\ call.op = "update_epic_status"
    /\ call.res = "Ok"
    /\ call.status = "Open"
    /\ \E s \in DOMAIN db.stories : db.stories[s].status = "Closed"
    /\ \E e \in DOMAIN db.epics : db.epics[e].status = "Resolved"

\* C18: update_epic_status under an id that is no key of the epics map fails
\* with EpicNotFound, update_story_status under an id that is no key of the
\* stories map fails with StoryNotFound, and both leave the store as it was.
UpdateNeedsEntity ==
    [][/\ (call'.op = "update_epic_status" /\ call'.epic_id \notin DOMAIN db.epics) =>
              (call'.res = "EpicNotFound" /\ db' = db)
       /\ (call'.op = "update_story_status" /\ call'.story_id \notin DOMAIN db.stories) =>
              (call'.res = "StoryNotFound" /\ db' = db)]_vars

\* C18's case: update_story_status was refused under the id of an epic.
UpdateNeedsEntityWitness ==
    /\ call.op = "update_story_status"
    /\ call.res = "StoryNotFound"
    /\ call.story_id \in DOMAIN db.epics
    /\ DOMAIN db.stories # {}

\* C19: an UpdateEpicStatus or UpdateStoryStatus whose prompt yields no
\* status calls no Store operation, succeeds and leaves store and stack as
\* they were, whether or not the id exists; one whose prompt yields a status
\* calls the update operation with the action's id and that status, leaves
\* the stack as it was and, when the call succeeds, the entity has that
\* status.
UpdateAsksForStatus ==
    [][act'.type \in {"UpdateEpicStatus", "UpdateStoryStatus"} =>
          /\ pages' = pages
          /\ IF act'.answer = "none"
             THEN /\ call'.op = "none"
                  /\ act'.res = "Ok"
                  /\ db' = db
             ELSE /\ call'.status = act'.answer
                  /\ act'.res = call'.res
                  /\ IF act'.type = "UpdateEpicStatus"
                     THEN /\ call'.op = "update_epic_status"
                          /\ call'.epic_id = act'.epic_id
                          /\ call'.res = "Ok" =>
                                db'.epics[act'.epic_id].status = act'.answer
                          /\ act'.epic_id \in DOMAIN db.epics =>
                                call'.res \in {"Ok", "StoreUnavailable"}
                     ELSE /\ call'.op = "update_story_status"
                          /\ call'.story_id = act'.story_id
                          /\ call'.res = "Ok" =>
                                db'.stories[act'.story_id].status = act'.answer
                          /\ act'.story_id \in DOMAIN db.stories =>
                                call'.res \in {"Ok", "StoreUnavailable"}]_vars

\* C19's case: the prompt yielded no status for a story id the store does not
\* hold, under two pages.
UpdateAsksForStatusWitness ==
    /\ act.type = "UpdateStoryStatus"
    /\ act.answer = "none"
    /\ act.res = "Ok"
    /\ act.story_id \notin DOMAIN db.stories
    /\ DOMAIN db.epics # {}
    /\ Len(pages) = 2

\* C20: create_epic on a store with counter n succeeds, returns n + 1, stores
\* the epic it was given under the key n + 1, sets last_item_id to n + 1 and
\* leaves every epic and story the store held as it was.
CreateEpicTakesNextId ==
    [][call'.op = "create_epic" =>
          LET id == db.last_item_id + 1 IN
          /\ call'.res = "Ok"
          /\ call'.id = id
          /\ db'.last_item_id = id
          /\ DOMAIN db'.epics = (DOMAIN db.epics) \cup {id}
          /\ \E name \in Names :
                db'.epics[id] = [name |-> name, description |-> "",
                                 status |-> "Open", stories |-> <<>>]
          /\ \A e \in DOMAIN db.epics : db'.epics[e] = db.epics[e]
          /\ db'.stories = db.stories]_vars

\* C20's case: the third id went to an epic, after an epic and its story.
CreateEpicTakesNextIdWitness ==
    /\ call.op = "create_epic"
    /\ call.res = "Ok"
    /\ call.id = 3
    /\ DOMAIN db.epics = {1, 3}
    /\ db.epics[1].stories = <<2>>
    /\ DOMAIN db.stories = {2}

\* C21: create_story under an existing epic, on a store with counter n,
\* succeeds, returns n + 1, stores the story it was given under the key
\* n + 1, sets last_item_id to n + 1 and makes n + 1 the last element of that
\* epic's list after the elements the list had, in their order; the other
\* epics and stories stay as they were.
CreateStoryAppends ==
    [][(call'.op = "create_story" /\ call'.epic_id \in DOMAIN db.epics) =>
          LET id == db.last_item_id + 1
              e == call'.epic_id
              before == db.epics[e].stories
              after == db'.epics[e].stories
          IN /\ call'.res = "Ok"
             /\ call'.id = id
             /\ db'.last_item_id = id
             /\ DOMAIN db'.stories = (DOMAIN db.stories) \cup {id}
             /\ \E name \in Names :
                   db'.stories[id] = [name |-> name, description |-> "", status |-> "Open"]
             /\ \A s \in DOMAIN db.stories : db'.stories[s] = db.stories[s]
             /\ Len(after) = Len(before) + 1
             /\ after[Len(after)] = id
             /\ \A i \in 1..Len(before) : after[i] = before[i]
             /\ DOMAIN db'.epics = DOMAIN db.epics
             /\ \A o \in (DOMAIN db.epics) \ {e} : db'.epics[o] = db.epics[o]]_vars

\* C21's case: a second story was appended to the list of epic 1.
CreateStoryAppendsWitness ==
    /\ call.op = "create_story"
    /\ call.res = "Ok"
    /\ call.id = 3
    /\ 1 \in DOMAIN db.epics
    /\ db.epics[1].stories = <<2, 3>>

\* C22: delete_epic and delete_story leave last_item_id as it was, no step
\* lowers last_item_id, and no id is returned by two creates.
IdsNeverReused ==
    /\ [][/\ db'.last_item_id >= db.last_item_id
          /\ call'.op \in {"delete_epic", "delete_story"} =>
                db'.last_item_id = db.last_item_id]_vars
    /\ [](\A i \in 1..Len(returned) : \A j \in 1..Len(returned) :
              returned[i] = returned[j] => i = j)

\* C22's case: an epic was created after the epic with the highest id was
\* deleted.
IdsNeverReusedWitness ==
    /\ call.op = "create_epic"
    /\ call.res = "Ok"
    /\ call.id - 1 \in deleted

\* C23: every key of the stories map occurs in the stories list of exactly
\* one epic, and exactly once there.
StoryHasOneEpic ==
    \A s \in DOMAIN db.stories :
        /\ Cardinality({e \in DOMAIN db.epics : s \in Range(db.epics[e].stories)}) = 1
        /\ \A e \in DOMAIN db.epics :
              Cardinality({i \in 1..Len(db.epics[e].stories) : db.epics[e].stories[i] = s}) <= 1

\* C23's case: a story is left after another story of its epic was deleted.
StoryHasOneEpicWitness ==
    /\ call.op = "delete_story"
    /\ call.res = "Ok"
    /\ call.story_id \in Range(returned)
    /\ DOMAIN db.stories # {}

\* C24: over a store that can be read, draw_page of a page succeeds exactly
\* when every id the page is bound to is a key of the store's maps: the epic
\* of an EpicDetail, the epic and the story of a StoryDetail, nothing for the
\* Home page.
RenderNeedsBoundIds ==
    pagecall.op = "draw_page" => ((pagecall.res = "Ok") <=> Resolves(pagecall.page))

\* The line is a decimal numeral of n: an optional "+", any leading zeros,
\* the digits of n.
Denotes(input, n) ==
    LET body == IF Len(input) > 0 /\ Head(input) = "+" THEN Tail(input) ELSE input
    IN /\ Len(body) > 0
       /\ \E k \in 0..(Len(body) - 1) :
             /\ \A i \in 1..k : body[i] = "0"
             /\ SubSeq(body, k + 1, Len(body)) = FormatU32(n)

\* C25: over a store that can be read, EpicDetail::handle_input returns
\* without error; "p", "u", "d", "c" give NavigateToPreviousPage,
\* UpdateEpicStatus, DeleteEpic and CreateStory of the page's epic; a numeral
\* of a key of the stories map gives NavigateToStoryDetail of the page's epic
\* and that story; every other line gives no action.
EpicDetailInterprets ==
    (pagecall.op = "handle_input" /\ pagecall.page.kind = "EpicDetail") =>
        LET e == pagecall.page.epic_id
            input == pagecall.input
            expected ==
                CASE input = <<"p">> ->
                        [type |-> "NavigateToPreviousPage", epic_id |-> 0, story_id |-> 0]
                  [] input = <<"u">> ->
                        [type |-> "UpdateEpicStatus", epic_id |-> e, story_id |-> 0]
                  [] input = <<"d">> ->
                        [type |-> "DeleteEpic", epic_id |-> e, story_id |-> 0]
                  [] input = <<"c">> ->
                        [type |-> "CreateStory", epic_id |-> e, story_id |-> 0]
                  [] OTHER ->
                        IF \E s \in DOMAIN db.stories : Denotes(input, s)
                        THEN [type |-> "NavigateToStoryDetail", epic_id |-> e,
                              story_id |-> CHOOSE s \in DOMAIN db.stories : Denotes(input, s)]
                        ELSE [type |-> "none", epic_id |-> 0, story_id |-> 0]
        IN /\ pagecall.res = "Ok"
           /\ pagecall.action = expected

\* C25's case: the page of an epic was given the id of a story of another
\* epic.
EpicDetailInterpretsWitness ==
    /\ pagecall.op = "handle_input"
    /\ pagecall.page.kind = "EpicDetail"
    /\ pagecall.action.type = "NavigateToStoryDetail"
    /\ pagecall.page.epic_id \in DOMAIN db.epics
    /\ pagecall.action.story_id \notin Range(db.epics[pagecall.page.epic_id].stories)

\* C26: over a store that can be read, HomePage::handle_input returns
\* without error; "q" gives Exit and "c" CreateEpic; a numeral of a key of
\* the epics map gives NavigateToEpicDetail of that epic; every other line
\* gives no action.
HomeInterprets ==
    (pagecall.op = "handle_input" /\ pagecall.page.kind = "HomePage") =>
        LET input == pagecall.input
            expected ==
                CASE input = <<"q">> -> [type |-> "Exit", epic_id |-> 0, story_id |-> 0]
                  [] input = <<"c">> -> [type |-> "CreateEpic", epic_id |-> 0, story_id |-> 0]
                  [] OTHER ->
                        IF \E e \in DOMAIN db.epics : Denotes(input, e)
                        THEN [type |-> "NavigateToEpicDetail",
                              epic_id |-> CHOOSE e \in DOMAIN db.epics : Denotes(input, e),
                              story_id |-> 0]
                        ELSE [type |-> "none", epic_id |-> 0, story_id |-> 0]
        IN /\ pagecall.res = "Ok"
           /\ pagecall.action = expected

\* C26's case: the Home page was given the id of a story and gave no action.
HomeInterpretsWitness ==
    /\ pagecall.op = "handle_input"
    /\ pagecall.page.kind = "HomePage"
    /\ pagecall.action.type = "none"
    /\ \E s \in DOMAIN db.stories : pagecall.input = FormatU32(s)

\* C27: StoryDetail::handle_input returns without error whatever the store
\* holds and whether or not it can be read; "p", "u", "d" give
\* NavigateToPreviousPage, UpdateStoryStatus of the page's story and
\* DeleteStory of the page's epic and story; every other line, numerals
\* included, gives no action.
StoryDetailInterprets ==
    (pagecall.op = "handle_input" /\ pagecall.page.kind = "StoryDetail") =>
        LET e == pagecall.page.epic_id
            s == pagecall.page.story_id
            input == pagecall.input
            expected ==
                CASE input = <<"p">> ->
                        [type |-> "NavigateToPreviousPage", epic_id |-> 0, story_id |-> 0]
                  [] input = <<"u">> ->
                        [type |-> "UpdateStoryStatus", epic_id |-> 0, story_id |-> s]
                  [] input = <<"d">> ->
                        [type |-> "DeleteStory", epic_id |-> e, story_id |-> s]
                  [] OTHER -> [type |-> "none", epic_id |-> 0, story_id |-> 0]
        IN /\ pagecall.res = "Ok"
           /\ pagecall.action = expected

\* C27's case: "d" on the page of a story the store does not hold, over a
\* store that cannot be read.
StoryDetailInterpretsWitness ==
    /\ pagecall.op = "handle_input"
    /\ pagecall.page.kind = "StoryDetail"
    /\ pagecall.input = <<"d">>
    /\ pagecall.io = "read_fail"
    /\ pagecall.page.story_id \notin DOMAIN db.stories
    /\ DOMAIN db.stories # {}

\* C28: EpicDetail::handle_input of "d" gives DeleteEpic of the page's epic
\* whatever the store holds, whether or not it holds the epic, and whether
\* or not it can be read.
EpicDetailAlwaysDeletes ==
    (/\ pagecall.op = "handle_input"
     /\ pagecall.page.kind = "EpicDetail"
     /\ pagecall.input = <<"d">>) =>
        /\ pagecall.res = "Ok"
        /\ pagecall.action =
              [type |-> "DeleteEpic", epic_id |-> pagecall.page.epic_id, story_id |-> 0]

RoundTripLossless ==
    roundtrip.medium # "none" =>
        /\ roundtrip.res = "Ok"
        /\ roundtrip.read.last_item_id = roundtrip.written.last_item_id
        /\ roundtrip.read.epics = roundtrip.written.epics
        /\ roundtrip.read.stories = roundtrip.written.stories

\* C30's case: the file gave back a state with a story above the counter, a
\* list naming a story twice and stories that do not exist, an InProgress
\* epic, a name with a quote and a description with a newline.
RoundTripLosslessWitness ==
    /\ roundtrip.medium = "json"
    /\ roundtrip.res = "Ok"
    /\ roundtrip.read.last_item_id = 7
    /\ 500 \in DOMAIN roundtrip.read.stories
    /\ 30 \in DOMAIN roundtrip.read.epics
    /\ roundtrip.read.epics[30].stories = <<9, 9, 100>>
    /\ roundtrip.read.epics[30].status = "InProgress"
    /\ roundtrip.read.epics[30].name = <<"\"">>
    /\ roundtrip.read.epics[30].description = <<"a", "\n">>

\* C31: in main's loop the stack is empty, or HomePage alone, or HomePage
\* under an EpicDetail, or those two under a StoryDetail bound to the epic of
\* the EpicDetail below it; it never holds more than three pages.
StackShape ==
    /\ Len(pages) <= 3
    /\ Len(pages) >= 1 => pages[1] = HomePage
    /\ Len(pages) >= 2 => pages[2].kind = "EpicDetail"
    /\ Len(pages) >= 3 =>
          /\ pages[3].kind = "StoryDetail"
          /\ pages[3].epic_id = pages[2].epic_id

\* C31's case: a story was opened from the page of the second epic, and its
\* page is drawn on top of the stack.
StackShapeWitness ==
    /\ Len(pages) = 3
    /\ act.type = "NavigateToStoryDetail"
    /\ pages[2] = EpicDetail(2)
    /\ pages[3].kind = "StoryDetail"
    /\ pc = "input"

\* C32: over a store that can be read, a NavigateToStoryDetail given by the
\* handle_input of the page of an existing epic carries that epic's id and
\* the id of a story in that epic's own stories list.
StoryOpenedFromOwnEpic ==
    (/\ pagecall.op = "handle_input"
     /\ pagecall.page.kind = "EpicDetail"
     /\ pagecall.page.epic_id \in DOMAIN db.epics
     /\ pagecall.action.type = "NavigateToStoryDetail") =>
        /\ pagecall.action.epic_id = pagecall.page.epic_id
        /\ pagecall.action.story_id \in Range(db.epics[pagecall.page.epic_id].stories)

====
